---- MODULE Spec2Model ----
(***************************************************************************)
(* Model of serverless_musings:                                            *)
(*   manageFleetDNS.py  - the Lambda handler that keeps a Route53 A record *)
(*                        in step with an autoscaling group;               *)
(*   arntopia.py        - breakDownARN and the accessors built on it.      *)
(*                                                                         *)
(* Spec     : invocations of lambda_handler, one collaborator call per     *)
(*            step, one invocation at a time.                              *)
(* SpecARN  : breakDownARN applied to identifiers built segment by segment.*)
(***************************************************************************)
EXTENDS Integers, Sequences, FiniteSets, TLC

VARIABLES
    dns,                  \* Route53: address values of the host's A record set
    fleet,                \* autoscaling: instance ids of the group, listing order
    pc,                   \* per invocation: position in lambda_handler
    event,                \* per invocation: the event dict it was given
    branch,               \* per invocation: arm of the if at line 175 taken
    newInstancePublicIP,  \* per invocation: local of line 184
    ipAddresses,          \* per invocation: local address list
    members,              \* per invocation: instances still to resolve (line 153)
    calls,                \* per invocation: collaborator calls made, in order
    printed,              \* per invocation: messages printed
    outcome,              \* per invocation: how the invocation ended
    dnsBefore,            \* per invocation: dns when the invocation started
    arn,                  \* SpecARN: the identifier string (sequence of atoms)
    retVal                \* SpecARN: breakDownARN(arn)

envVars == <<dns, fleet>>
invVars == <<pc, event, branch, newInstancePublicIP, ipAddresses, members,
             calls, printed, outcome, dnsBefore>>
arnVars == <<arn, retVal>>
vars    == <<dns, fleet, pc, event, branch, newInstancePublicIP, ipAddresses,
             members, calls, printed, outcome, dnsBefore, arn, retVal>>

(***************************************************************************)
(* Bounds and input sets                                                   *)
(***************************************************************************)
MaxDns   == 2      \* longest address list the record set starts with
MaxSegs  == 9      \* most segments of a generated identifier
MaxSlash == 1      \* most '/' separators in a generated identifier

Procs     == {"p1", "p2"}      \* invocations that may be in flight
Sequential == {"p1"}           \* Spec: one invocation after another
Instances == {"i1", "i2"}
Addrs     == {"a1", "a2", "b"}
Hooks     == {"hook"}

\* getIPofInstance: the public address EC2 reports for an instance.
ipOf == ("i1" :> "a1") @@ ("i2" :> "a2")

NoValue == "None"

RECURSIVE SeqsUpTo(_, _)
SeqsUpTo(S, n) ==
    IF n = 0 THEN {<<>>}
    ELSE LET r == SeqsUpTo(S, n - 1)
         IN  r \cup {Append(s, x) : s \in {t \in r : Len(t) = n - 1}, x \in S}

Range(s) == {s[i] : i \in 1..Len(s)}

\* Listings of a group: every instance at most once.
FleetListings == {s \in SeqsUpTo(Instances, Cardinality(Instances)) :
                     Cardinality(Range(s)) = Len(s)}

(***************************************************************************)
(* Events: Python dicts, modelled as functions whose domain is the set of  *)
(* keys present.                                                           *)
(***************************************************************************)
AutoscalingSource == "aws.autoscaling"
LaunchDetailType  == "EC2 Instance-launch Lifecycle Action"
LAUNCHING         == "autoscaling:EC2_INSTANCE_LAUNCHING"
TERMINATING       == "autoscaling:EC2_INSTANCE_TERMINATING"

EmptyDict == <<>>
Opt(k, V) == {EmptyDict} \cup {k :> v : v \in V}

Details ==
    {a @@ b @@ c :
        a \in Opt("EC2InstanceId", Instances),
        b \in Opt("LifecycleTransition",
                  {LAUNCHING, TERMINATING, "autoscaling:TEST_NOTIFICATION"}),
        c \in Opt("LifecycleHookName", Hooks)}

Events ==
    {a @@ b @@ c :
        a \in Opt("source", {AutoscalingSource, "aws.ec2"}),
        b \in Opt("detail-type",
                  {LaunchDetailType, "EC2 Instance Launch Successful"}),
        c \in Opt("detail", Details)}

Has(d, k) == k \in DOMAIN d

(***************************************************************************)
(* lambda_handler, lines 172-211                                           *)
(***************************************************************************)
Set(f, p, v) == [f EXCEPT ![p] = v]

\* A collaborator call: what was called, whether it succeeded, and its place
\* in the order of all calls made by the invocations in flight.
RECURSIVE CallsMade(_)
CallsMade(P) ==
    IF P = {} THEN 0
    ELSE LET q == CHOOSE q \in P : TRUE
         IN  Len(calls[q]) + CallsMade(P \ {q})

Call(fn, arg, ok) == [fn |-> fn, arg |-> arg, ok |-> ok, at |-> CallsMade(Procs) + 1]
Logged(p, fn, arg, ok) == calls' = [calls EXCEPT ![p] = Append(@, Call(fn, arg, ok))]

\* The condition of the if at lines 175-178, evaluated left to right with
\* Python's short-circuit "and"; subscripting a missing key raises KeyError.
Dispatch(ev) ==
    IF ~Has(ev, "source") THEN "baseline"
    ELSE IF ev["source"] # AutoscalingSource THEN "baseline"
    ELSE IF ~Has(ev, "detail-type") THEN "KeyError"
    ELSE IF ev["detail-type"] # LaunchDetailType THEN "baseline"
    ELSE IF ~Has(ev, "detail") THEN "KeyError"
    ELSE IF Has(ev["detail"], "EC2InstanceId") THEN "event"
    ELSE "baseline"

\* Lines 180-182: the three subscripts of event["detail"]; the first is
\* present on this arm, the other two raise KeyError when missing.
DetailComplete(ev) ==
    /\ Has(ev["detail"], "LifecycleTransition")
    /\ Has(ev["detail"], "LifecycleHookName")

\* The if/elif/else on lifecycleTransition at lines 186-199.
\* (Faulty variant: an unknown transition handled like a launch.)
TransitionArm_otherAsLaunch(lt) ==
    IF lt = TERMINATING THEN "terminating" ELSE "launching"
\* (Faulty variant: a launch handled like an unknown transition.)
TransitionArm_launchAsOther(lt) ==
    IF lt = TERMINATING THEN "terminating" ELSE "other"
TransitionArm(lt) ==
    IF lt = LAUNCHING THEN "launching"
    ELSE IF lt = TERMINATING THEN "terminating"
    ELSE "other"

\* What the invocation hands back: "finally: return ''" overrides both the
\* normal path and the path through "except Exception".
Returned == ""
\* (Faulty variant: the exception leaves the handler.)
OnException_propagate == "raised"
OnException == Returned

ErrorMsg      == "Error: An exception occured: "
NoTransition  == "Error: No valid lifecycle transition identified."
LaunchMsg     == "Success: Host record updated to include the new instance public IP address."
TerminateMsg  == "Success: Host record updated to remove the retiring instance public IP address."
BaselineMsg   == "Success: Host record reset with current instance public IP addresses for autoscale group."

\* str(e) at line 208, for the exceptions the handler can meet: the KeyError
\* of a missing key, the ValueError of list.remove, and the exception of a
\* collaborator call that failed (its text names the call).
KeyError(k) == "'" \o k \o "'"
ValueError  == "list.remove(x): x not in list"
Failure(fn) == "injected failure of " \o fn

\* The key whose subscript raises KeyError at lines 177-182, when one does.
MissingKey(ev) ==
    IF ~Has(ev, "detail-type") THEN "detail-type"
    ELSE IF ~Has(ev, "detail") THEN "detail"
    ELSE IF ~Has(ev["detail"], "LifecycleTransition") THEN "LifecycleTransition"
    ELSE "LifecycleHookName"

\* (Faulty variant: the failed step is tried again.)
Raise_retry(p, e) == UNCHANGED <<pc, printed, outcome>>
\* except Exception / finally, lines 207-211.
Raise(p, e) ==
    /\ pc' = Set(pc, p, "done")
    /\ printed' = [printed EXCEPT ![p] = Append(@, ErrorMsg \o e)]
    /\ outcome' = Set(outcome, p, OnException)

\* Falling out of the try block normally, then finally.
Return(p, msgs) ==
    /\ pc' = Set(pc, p, "done")
    /\ printed' = [printed EXCEPT ![p] = @ \o msgs]
    /\ outcome' = Set(outcome, p, Returned)

instanceId(p)                 == event[p]["detail"]["EC2InstanceId"]
lifecycleTransition(p)        == event[p]["detail"]["LifecycleTransition"]
autoscaleLifecycleHookName(p) == event[p]["detail"]["LifecycleHookName"]

\* Entry: lines 174-182 (no collaborator is called yet).
Invoke(p, ev) ==
    /\ pc[p] = "idle"
    /\ event' = Set(event, p, ev)
    /\ dnsBefore' = Set(dnsBefore, p, dns)
    /\ LET d == Dispatch(ev) IN
        IF d = "baseline"
        THEN /\ branch' = Set(branch, p, "baseline")
             /\ pc' = Set(pc, p, "list")
             /\ UNCHANGED <<printed, outcome>>
        ELSE IF d = "event" /\ DetailComplete(ev)
        THEN /\ branch' = Set(branch, p, "event")
             /\ pc' = Set(pc, p, "getip")
             /\ UNCHANGED <<printed, outcome>>
        ELSE /\ branch' = Set(branch, p, IF d = "event" THEN "event" ELSE "KeyError")
             /\ Raise(p, KeyError(MissingKey(ev)))
    /\ UNCHANGED <<envVars, newInstancePublicIP, ipAddresses, members, calls, arnVars>>

(***************************************************************************)
(* Collaborators and the helpers that wrap them, lines 75-158              *)
(***************************************************************************)
HostRecord == "host.example.com."

\* client.list_resource_record_sets: the zone's record sets.  Route53 holds
\* no record set without values, so an empty dns means the A record is absent.
ListResourceRecordSets(d) ==
    <<[Name |-> HostRecord, Type |-> "NS", ResourceRecords |-> <<[Value |-> "ns"]>>]>>
    \o (IF d = <<>> THEN <<>>
        ELSE <<[Name |-> HostRecord, Type |-> "A",
                ResourceRecords |-> [i \in 1..Len(d) |-> [Value |-> d[i]]]]>>)

Matching(recordSets) ==
    {i \in 1..Len(recordSets) :
        recordSets[i].Name = HostRecord /\ recordSets[i].Type = "A"}

\* getIpAddressesFromRoute53Entry, lines 95-108.  The loop at 100-102 binds
\* the matching record set to currentResourceRecordSet; the loop at 105-106
\* iterates resourceRecordSet, which is still the empty dict of line 99.
getIpAddressesFromRoute53Entry(recordSets) ==
    LET currentResourceRecordSet ==
            IF Matching(recordSets) = {} THEN <<>>
            ELSE recordSets[CHOOSE i \in Matching(recordSets) :
                               \A j \in Matching(recordSets) : j <= i]
        resourceRecordSet == <<>>
    IN  [i \in 1..Len(resourceRecordSet) |-> resourceRecordSet[i].Value]

\* list.remove(x): drops the first occurrence; callers check x is present
\* (Python raises ValueError otherwise).
ListRemove(l, x) ==
    LET i == CHOOSE k \in 1..Len(l) : l[k] = x /\ \A j \in 1..(k - 1) : l[j] # x
    IN  SubSeq(l, 1, i - 1) \o SubSeq(l, i + 1, Len(l))

\* setDNSRecord, lines 112-137: one UPSERT of the whole record set; the
\* values of the record set afterwards.
\* (Faulty variant: the new values are added to the old ones.)
setDNSRecord_merge(current, addrs) == current \o addrs
setDNSRecord(current, addrs) ==
    LET resourceRecords == [i \in 1..Len(addrs) |-> [Value |-> addrs[i]]]
    IN  [i \in 1..Len(resourceRecords) |-> resourceRecords[i].Value]

\* (Faulty variant: a failed lookup is swallowed and the handler goes on.)
GetIP_lenient(p) ==
    /\ pc[p] = "getip"
    /\ \E ok \in BOOLEAN :
        /\ Logged(p, "getIPofInstance", instanceId(p), ok)
        /\ newInstancePublicIP' =
              Set(newInstancePublicIP, p, IF ok THEN ipOf[instanceId(p)] ELSE NoValue)
        /\ IF TransitionArm(lifecycleTransition(p)) = "other"
           THEN /\ pc' = Set(pc, p, "ack")
                /\ printed' = [printed EXCEPT ![p] = Append(@, NoTransition)]
                /\ UNCHANGED outcome
           ELSE /\ pc' = Set(pc, p, "read")
                /\ UNCHANGED <<printed, outcome>>
    /\ UNCHANGED <<envVars, event, branch, ipAddresses, members, dnsBefore, arnVars>>

\* Line 184: newInstancePublicIP = getIPofInstance(instanceId)
GetIP(p) ==
    /\ pc[p] = "getip"
    /\ \E ok \in BOOLEAN :
        /\ Logged(p, "getIPofInstance", instanceId(p), ok)
        /\ IF ~ok THEN Raise(p, Failure("getIPofInstance")) /\ UNCHANGED newInstancePublicIP
           ELSE /\ newInstancePublicIP' = Set(newInstancePublicIP, p, ipOf[instanceId(p)])
                /\ IF TransitionArm(lifecycleTransition(p)) = "other"
                   THEN /\ pc' = Set(pc, p, "ack")
                        /\ printed' = [printed EXCEPT ![p] = Append(@, NoTransition)]
                        /\ UNCHANGED outcome
                   ELSE /\ pc' = Set(pc, p, "read")
                        /\ UNCHANGED <<printed, outcome>>
    /\ UNCHANGED <<envVars, event, branch, ipAddresses, members, dnsBefore, arnVars>>

\* Lines 187-188 / 193-194: read the record set, then append or remove.
ReadDNS(p) ==
    /\ pc[p] = "read"
    /\ \E ok \in BOOLEAN :
        /\ Logged(p, "getIpAddressesFromRoute53Entry", HostRecord, ok)
        /\ IF ~ok THEN Raise(p, Failure("getIpAddressesFromRoute53Entry")) /\ UNCHANGED ipAddresses
           ELSE LET got == getIpAddressesFromRoute53Entry(ListResourceRecordSets(dns))
                    ip  == newInstancePublicIP[p]
                IN  IF TransitionArm(lifecycleTransition(p)) = "launching"
                    THEN /\ ipAddresses' = Set(ipAddresses, p, Append(got, ip))
                         /\ pc' = Set(pc, p, "write")
                         /\ UNCHANGED <<printed, outcome>>
                    ELSE IF ip \in Range(got)
                    THEN /\ ipAddresses' = Set(ipAddresses, p, ListRemove(got, ip))
                         /\ pc' = Set(pc, p, "write")
                         /\ UNCHANGED <<printed, outcome>>
                    ELSE /\ ipAddresses' = Set(ipAddresses, p, got)
                         /\ Raise(p, ValueError)
    /\ UNCHANGED <<envVars, event, branch, newInstancePublicIP, members, dnsBefore, arnVars>>

\* Lines 189-190 / 195-196 / 156 and 205: setDNSRecord, then the print.
WriteDNS(p) ==
    /\ pc[p] = "write"
    /\ \E ok \in BOOLEAN :
        /\ Logged(p, "setDNSRecord", HostRecord, ok)
        /\ IF ~ok THEN Raise(p, Failure("setDNSRecord")) /\ UNCHANGED dns
           ELSE /\ dns' = setDNSRecord(dns, ipAddresses[p])
                /\ IF branch[p] = "baseline"
                   THEN Return(p, <<BaselineMsg>>)
                   ELSE /\ pc' = Set(pc, p, "ack")
                        /\ printed' = [printed EXCEPT ![p] = Append(@,
                              IF TransitionArm(lifecycleTransition(p)) = "launching"
                              THEN LaunchMsg ELSE TerminateMsg)]
                        /\ UNCHANGED outcome
    /\ UNCHANGED <<fleet, event, branch, newInstancePublicIP, ipAddresses, members,
                   dnsBefore, arnVars>>

\* Line 201: resumeAutoscaleTransition (complete_lifecycle_action, CONTINUE).
Ack(p) ==
    /\ pc[p] = "ack"
    /\ \E ok \in BOOLEAN :
        /\ Logged(p, "resumeAutoscaleTransition", instanceId(p), ok)
        /\ IF ok THEN Return(p, <<>>) ELSE Raise(p, Failure("resumeAutoscaleTransition"))
    /\ UNCHANGED <<envVars, event, branch, newInstancePublicIP, ipAddresses, members,
                   dnsBefore, arnVars>>

\* baselineIpAddressesInDNS, lines 146-151: describe_auto_scaling_groups.
ListFleet(p) ==
    /\ pc[p] = "list"
    /\ \E ok \in BOOLEAN :
        /\ Logged(p, "describe_auto_scaling_groups", "", ok)
        /\ IF ~ok THEN Raise(p, Failure("describe_auto_scaling_groups")) /\ UNCHANGED <<members, ipAddresses>>
           ELSE /\ members' = Set(members, p, fleet)
                /\ ipAddresses' = Set(ipAddresses, p, <<>>)
                /\ pc' = Set(pc, p, IF fleet = <<>> THEN "write" ELSE "resolve")
                /\ UNCHANGED <<printed, outcome>>
    /\ UNCHANGED <<envVars, event, branch, newInstancePublicIP, dnsBefore, arnVars>>

\* (Faulty variant: a member whose lookup fails is left out of the list.)
ResolveMember_skipFailed(p) ==
    /\ pc[p] = "resolve"
    /\ \E ok \in BOOLEAN :
        /\ Logged(p, "getIPofInstance", Head(members[p]), ok)
        /\ ipAddresses' = [ipAddresses EXCEPT ![p] =
              IF ok THEN Append(@, ipOf[Head(members[p])]) ELSE @]
        /\ members' = [members EXCEPT ![p] = Tail(@)]
        /\ pc' = Set(pc, p, IF Tail(members[p]) = <<>> THEN "write" ELSE "resolve")
        /\ UNCHANGED <<printed, outcome>>
    /\ UNCHANGED <<envVars, event, branch, newInstancePublicIP, dnsBefore, arnVars>>

\* baselineIpAddressesInDNS, lines 153-154: one turn of the for loop.
ResolveMember(p) ==
    /\ pc[p] = "resolve"
    /\ \E ok \in BOOLEAN :
        /\ Logged(p, "getIPofInstance", Head(members[p]), ok)
        /\ IF ~ok THEN Raise(p, Failure("getIPofInstance")) /\ UNCHANGED <<members, ipAddresses>>
           ELSE /\ ipAddresses' = [ipAddresses EXCEPT ![p] = Append(@, ipOf[Head(members[p])])]
                /\ members' = [members EXCEPT ![p] = Tail(@)]
                /\ pc' = Set(pc, p, IF Tail(members[p]) = <<>> THEN "write" ELSE "resolve")
                /\ UNCHANGED <<printed, outcome>>
    /\ UNCHANGED <<envVars, event, branch, newInstancePublicIP, dnsBefore, arnVars>>

\* The invocation is over; the Lambda runtime is free to start another.
Finish(p) ==
    /\ pc[p] = "done"
    /\ pc' = Set(pc, p, "idle")
    /\ event' = Set(event, p, EmptyDict)
    /\ branch' = Set(branch, p, "none")
    /\ newInstancePublicIP' = Set(newInstancePublicIP, p, NoValue)
    /\ ipAddresses' = Set(ipAddresses, p, <<>>)
    /\ members' = Set(members, p, <<>>)
    /\ calls' = Set(calls, p, <<>>)
    /\ printed' = Set(printed, p, <<>>)
    /\ outcome' = Set(outcome, p, "pending")
    /\ dnsBefore' = Set(dnsBefore, p, <<>>)
    /\ UNCHANGED <<envVars, arnVars>>

(***************************************************************************)
(* arntopia.py.  A string is a sequence of atoms: the separators ":" and   *)
(* "/" and pieces of text that contain neither.  A field of the result is  *)
(* either None or holds a string.                                          *)
(***************************************************************************)
None    == [unset |-> TRUE]
Some(s) == [str |-> s]
Str(t)  == <<t>>

SegVals == {Str("autoscaling"), Str("autoScalingGroup")}
Seps    == {":", "/"}

\* arn.replace("/", ":"), line 28
Replace(s) == [i \in 1..Len(s) |-> IF s[i] = "/" THEN ":" ELSE s[i]]

\* arn.split(":"), line 29
RECURSIVE Split(_)
Split(s) ==
    LET at == {i \in 1..Len(s) : s[i] = ":"}
    IN  IF at = {} THEN <<s>>
        ELSE LET i == CHOOSE k \in at : \A j \in at : k <= j
             IN  <<SubSeq(s, 1, i - 1)>> \o Split(SubSeq(s, i + 1, Len(s)))

\* The assignments of the try block, lines 36-51, in program order, each with
\* the (1-based) position of arnParts it subscripts.
\* (Faulty variants: no 6-element case; Service and Region exchanged.)
TryAssignments_noOldStyle(n) ==
    <<<<"Partition", 2>>, <<"Service", 3>>, <<"Region", 4>>, <<"AccountId", 5>>,
      <<"ResourceType", 6>>, <<"Resource", 7>>, <<"Qualifier", 8>>>>
TryAssignments_swapped(n) ==
    <<<<"Partition", 2>>, <<"Service", 4>>, <<"Region", 3>>, <<"AccountId", 5>>>>
    \o (IF n = 6 THEN <<<<"Resource", 6>>>>
        ELSE <<<<"ResourceType", 6>>, <<"Resource", 7>>>>)
    \o <<<<"Qualifier", 8>>>>
TryAssignments(n) ==
    <<<<"Partition", 2>>, <<"Service", 3>>, <<"Region", 4>>, <<"AccountId", 5>>>>
    \o (IF n = 6 THEN <<<<"Resource", 6>>>>
        ELSE <<<<"ResourceType", 6>>, <<"Resource", 7>>>>)
    \o <<<<"Qualifier", 8>>>>

\* The assignments that run: those before the first subscript past the end
\* (IndexError leaves the try block; "except: pass").
Executed(n) ==
    LET A   == TryAssignments(n)
        bad == {i \in 1..Len(A) : A[i][2] > n}
    IN  IF bad = {} THEN A
        ELSE SubSeq(A, 1, (CHOOSE k \in bad : \A j \in bad : k <= j) - 1)

\* Lines 59-60: for an autoscaling group the qualifier is arnParts[-1].
\* (Faulty variant: no override.)
Override_none(tried, arnParts) == tried
Override(tried, arnParts) ==
    IF tried.Service = Some(Str("autoscaling"))
       /\ tried.ResourceType = Some(Str("autoScalingGroup"))
    THEN [tried EXCEPT !.Qualifier = Some(arnParts[Len(arnParts)])]
    ELSE tried

\* breakDownARN, lines 16-62
breakDownARN(a) ==
    LET arnParts == Split(Replace(a))
        E        == Executed(Len(arnParts))
        Field(f) == IF \E i \in 1..Len(E) : E[i][1] = f
                    THEN Some(arnParts[E[CHOOSE i \in 1..Len(E) : E[i][1] = f][2]])
                    ELSE None
        tried    == [ARN |-> Some(a),
                     Partition |-> Field("Partition"),
                     Service |-> Field("Service"),
                     Region |-> Field("Region"),
                     AccountId |-> Field("AccountId"),
                     ResourceType |-> Field("ResourceType"),
                     Resource |-> Field("Resource"),
                     Qualifier |-> Field("Qualifier")]
    IN  Override(tried, arnParts)

\* Lines 52-53: the bare "except: pass" swallows the IndexError of the try.
\* (Faulty variant: the handler is missing and the error leaves the function.)
ExceptPass_missing == FALSE
ExceptPass == TRUE

\* Whether breakDownARN(a) ends in an exception: an IndexError of the try
\* block that is not swallowed, or arnParts[-1] at line 60 on an empty list.
breakDownARNRaises(a) ==
    LET arnParts == Split(Replace(a))
        n        == Len(arnParts)
    IN  \/ Executed(n) # TryAssignments(n) /\ ~ExceptPass
        \/ n = 0

getResourceFromARN(a)    == breakDownARN(a).Resource
getQualifierFromARN(a)   == breakDownARN(a).Qualifier
getAutoscaleGroupName(a) == getQualifierFromARN(a)
getDynamoTableName(a)    == getResourceFromARN(a)
getLambdaFunctionName(a) == getResourceFromARN(a)
getS3Bucket(a)           == getResourceFromARN(a)
getSqsQueueName(a)       == getResourceFromARN(a)

\* getSqsQueueUrl, lines 83-93: string concatenation; "+" on None raises
\* TypeError.
TypeError == <<"TypeError">>
\* (Faulty variant: Region and AccountId exchanged.)
getSqsQueueUrl_swapped(a) ==
    LET parts == breakDownARN(a)
    IN  IF None \in {parts.Service, parts.Region, parts.AccountId, parts.Resource}
        THEN TypeError
        ELSE Str("https://") \o parts.Service.str \o Str(".") \o parts.AccountId.str
             \o Str(".amazonaws.com/") \o parts.Region.str \o Str("/")
             \o parts.Resource.str
getSqsQueueUrl(a) ==
    LET parts == breakDownARN(a)
    IN  IF None \in {parts.Service, parts.Region, parts.AccountId, parts.Resource}
        THEN TypeError
        ELSE Str("https://") \o parts.Service.str \o Str(".") \o parts.Region.str
             \o Str(".amazonaws.com/") \o parts.AccountId.str \o Str("/")
             \o parts.Resource.str

NumSeps(s, c) == Cardinality({i \in 1..Len(s) : s[i] = c})
NumSegments(s) == NumSeps(s, ":") + NumSeps(s, "/") + 1

\* Extend the identifier by a separator and one more segment.
AddSegment(sep, seg) ==
    /\ NumSegments(arn) < MaxSegs
    /\ sep = "/" => NumSeps(arn, "/") < MaxSlash
    /\ arn' = arn \o <<sep>> \o seg
    /\ retVal' = breakDownARN(arn')
    /\ UNCHANGED <<envVars, invVars>>

(***************************************************************************)
(* Specifications                                                          *)
(***************************************************************************)
InitInvocations ==
    /\ pc = [p \in Procs |-> "idle"]
    /\ event = [p \in Procs |-> EmptyDict]
    /\ branch = [p \in Procs |-> "none"]
    /\ newInstancePublicIP = [p \in Procs |-> NoValue]
    /\ ipAddresses = [p \in Procs |-> <<>>]
    /\ members = [p \in Procs |-> <<>>]
    /\ calls = [p \in Procs |-> <<>>]
    /\ printed = [p \in Procs |-> <<>>]
    /\ outcome = [p \in Procs |-> "pending"]
    /\ dnsBefore = [p \in Procs |-> <<>>]

Init ==
    /\ dns \in SeqsUpTo(Addrs, MaxDns)
    /\ fleet \in FleetListings
    /\ InitInvocations
    /\ arn = <<>>
    /\ retVal = breakDownARN(arn)

Next ==
    \/ \E p \in Sequential, ev \in Events : Invoke(p, ev)
    \/ \E p \in Sequential : GetIP(p)
    \/ \E p \in Sequential : ReadDNS(p)
    \/ \E p \in Sequential : WriteDNS(p)
    \/ \E p \in Sequential : Ack(p)
    \/ \E p \in Sequential : ListFleet(p)
    \/ \E p \in Sequential : ResolveMember(p)
    \/ \E p \in Sequential : Finish(p)

Spec == Init /\ [][Next]_vars

InitARN ==
    /\ dns = <<>>
    /\ fleet = <<>>
    /\ InitInvocations
    /\ arn \in SegVals \cup {<<>>}
    /\ retVal = breakDownARN(arn)

NextARN == \E sep \in Seps, seg \in SegVals : AddSegment(sep, seg)

SpecARN == InitARN /\ [][NextARN]_vars

\* Lifecycle events handled by invocations that overlap: nothing orders the
\* steps of one invocation against those of another.
ConcEvents ==
    {ev \in Events :
        /\ Dispatch(ev) = "event" /\ DetailComplete(ev)
        /\ ev["detail"]["LifecycleTransition"] \in {LAUNCHING, TERMINATING}}

InitConc ==
    /\ dns \in SeqsUpTo(Addrs, MaxDns)
    /\ fleet = <<"i1", "i2">>
    /\ InitInvocations
    /\ arn = <<>>
    /\ retVal = breakDownARN(arn)

NextConc ==
    \/ \E p \in Procs, ev \in ConcEvents : Invoke(p, ev)
    \/ \E p \in Procs : GetIP(p)
    \/ \E p \in Procs : ReadDNS(p)
    \/ \E p \in Procs : WriteDNS(p)
    \/ \E p \in Procs : Ack(p)

SpecConc == InitConc /\ [][NextConc]_vars

(***************************************************************************)
(* Vocabulary of the properties                                            *)
(***************************************************************************)
Done(p) == pc[p] = "done"

\* The recognized shape of section 6: source, detail-type and a detail
\* payload carrying EC2InstanceId.
FullShape(ev) ==
    /\ Has(ev, "source") /\ ev["source"] = AutoscalingSource
    /\ Has(ev, "detail-type") /\ ev["detail-type"] = LaunchDetailType
    /\ Has(ev, "detail") /\ Has(ev["detail"], "EC2InstanceId")

\* A lifecycle event with every field of the data model present.
Lifecycle(ev) == FullShape(ev) /\ DetailComplete(ev)

Attempted(p, fn) == \E i \in 1..Len(calls[p]) : calls[p][i].fn = fn
Succeeded(p, fn) == \E i \in 1..Len(calls[p]) : calls[p][i].fn = fn /\ calls[p][i].ok
Failed(p, fn)    == \E i \in 1..Len(calls[p]) : calls[p][i].fn = fn /\ ~calls[p][i].ok
AllOk(p)         == \A i \in 1..Len(calls[p]) : calls[p][i].ok

FleetAddresses == [i \in 1..Len(fleet) |-> ipOf[fleet[i]]]

(***************************************************************************)
(* C1 - C7: lambda_handler (checked under Spec)                            *)
(***************************************************************************)

\* C1: when a recognized LAUNCHING or TERMINATING event is handled and the
\* DNS write (setDNSRecord) fails, the lifecycle transition is still
\* acknowledged (resumeAutoscaleTransition is attempted) before the
\* invocation ends.
C1_AckDespiteWriteFailure ==
    \A p \in Procs :
        (Done(p) /\ Lifecycle(event[p]) /\ Failed(p, "setDNSRecord"))
            => Attempted(p, "resumeAutoscaleTransition")

\* C2: a recognized LAUNCHING event for an instance with address A, every
\* collaborator call succeeding: the record set that held L now holds L with
\* A appended, and the transition has been acknowledged.
C2_LaunchAppends ==
    \A p \in Procs :
        (/\ Done(p) /\ Lifecycle(event[p])
         /\ lifecycleTransition(p) = LAUNCHING
         /\ AllOk(p))
            => /\ dns = Append(dnsBefore[p], ipOf[instanceId(p)])
               /\ Succeeded(p, "resumeAutoscaleTransition")

\* C3: a recognized TERMINATING event for an instance with address A, every
\* collaborator call succeeding, the record set containing A: afterwards the
\* record set holds the list with A removed, and the transition has been
\* acknowledged.
C3_TerminateRemoves ==
    \A p \in Procs :
        (/\ Done(p) /\ Lifecycle(event[p])
         /\ lifecycleTransition(p) = TERMINATING
         /\ AllOk(p)
         /\ ipOf[instanceId(p)] \in Range(dnsBefore[p]))
            => /\ dns = ListRemove(dnsBefore[p], ipOf[instanceId(p)])
               /\ Succeeded(p, "resumeAutoscaleTransition")

\* C4: an invocation that ran baseline reconciliation with every collaborator
\* call succeeding leaves the record set equal to the public addresses of the
\* fleet's members in listing order, whatever it held before.
C4_BaselineRebuilds ==
    \A p \in Procs :
        (Done(p) /\ branch[p] = "baseline" /\ AllOk(p))
            => /\ dns = FleetAddresses
               /\ Succeeded(p, "setDNSRecord")

C4_Witness ==
    \E p \in Procs :
        /\ Done(p) /\ branch[p] = "baseline" /\ AllOk(p)
        /\ Len(fleet) = 2
        /\ "b" \in Range(dnsBefore[p])
        /\ dnsBefore[p] # FleetAddresses
        /\ dns = FleetAddresses

\* C5: every trigger input without the full recognized shape is routed to
\* baseline reconciliation.
C5_RoutesToBaseline ==
    \A p \in Procs :
        (pc[p] # "idle" /\ ~FullShape(event[p])) => branch[p] = "baseline"

\* C6: a recognized event whose transition is neither LAUNCHING nor
\* TERMINATING, the calls it makes succeeding: the record set is neither read
\* nor written and is unchanged, and the transition is acknowledged.
C6_OtherTransition ==
    \A p \in Procs :
        (/\ Done(p) /\ Lifecycle(event[p])
         /\ lifecycleTransition(p) \notin {LAUNCHING, TERMINATING}
         /\ AllOk(p))
            => /\ ~Attempted(p, "getIpAddressesFromRoute53Entry")
               /\ ~Attempted(p, "setDNSRecord")
               /\ dns = dnsBefore[p]
               /\ Succeeded(p, "resumeAutoscaleTransition")
               /\ printed[p] = <<NoTransition>>

C6_Witness ==
    \E p \in Procs :
        /\ Done(p) /\ Lifecycle(event[p])
        /\ lifecycleTransition(p) \notin {LAUNCHING, TERMINATING}
        /\ AllOk(p)
        /\ dns # <<>>
        /\ Succeeded(p, "resumeAutoscaleTransition")

\* C7: every invocation ends in a normal return of the empty string, for
\* every event and every pattern of collaborator failures: nothing is ever
\* propagated, an invocation in flight always has a next step, and it makes
\* at most four calls on an event and one per fleet member plus two otherwise.
C7_AlwaysReturns ==
    \A p \in Procs :
        /\ outcome[p] \in {"pending", ""}
        /\ Done(p) <=> outcome[p] = ""
        /\ Len(calls[p]) <= (IF branch[p] = "baseline" THEN Len(fleet) + 2 ELSE 4)
        /\ pc[p] \notin {"idle", "done"} =>
              \/ ENABLED GetIP(p) \/ ENABLED ReadDNS(p) \/ ENABLED WriteDNS(p)
              \/ ENABLED Ack(p) \/ ENABLED ListFleet(p) \/ ENABLED ResolveMember(p)

C7_Witness ==
    \E p \in Procs :
        /\ Done(p) /\ outcome[p] = ""
        /\ ~AllOk(p)
        /\ printed[p] = <<ErrorMsg \o Failure(calls[p][Len(calls[p])].fn)>>

(***************************************************************************)
(* C8 - C10: breakDownARN (checked under SpecARN)                          *)
(***************************************************************************)
Segs == Split(Replace(arn))
N    == Len(Segs)

\* C8: counting segments after "/" is treated as ":", an identifier with
\* exactly 6 segments yields ResourceType null and Resource the 6th segment;
\* one with 7 or more yields ResourceType the 6th and Resource the 7th.
C8_ResourceBranch ==
    /\ N = 6 => retVal.ResourceType = None /\ retVal.Resource = Some(Segs[6])
    /\ N >= 7 => retVal.ResourceType = Some(Segs[6]) /\ retVal.Resource = Some(Segs[7])

C8_Witness ==
    /\ N = 6
    /\ NumSeps(arn, "/") = 1
    /\ retVal.ResourceType = None
    /\ retVal.Resource = Some(Str("autoScalingGroup"))
    /\ Segs[5] = Str("autoscaling")

\* C9: whenever the decomposed Service is autoscaling and the ResourceType is
\* autoScalingGroup, Qualifier is the last segment of the identifier whatever
\* its length, and getAutoscaleGroupName returns that segment.
C9_GroupQualifier ==
    (retVal.Service = Some(Str("autoscaling"))
        /\ retVal.ResourceType = Some(Str("autoScalingGroup")))
    => /\ retVal.Qualifier = Some(Segs[N])
       /\ getAutoscaleGroupName(arn) = Some(Segs[N])

C9_Witness ==
    /\ N = 9
    /\ retVal.Service = Some(Str("autoscaling"))
    /\ retVal.ResourceType = Some(Str("autoScalingGroup"))
    /\ Segs[8] # Segs[9]
    /\ retVal.Qualifier = Some(Segs[9])

\* C10 as stated: every identifier with at least 4 segments has Partition,
\* Service, Region and AccountId all non-null.
C10_FourSegments ==
    N >= 4 => /\ retVal.Partition # None
              /\ retVal.Service # None
              /\ retVal.Region # None
              /\ retVal.AccountId # None

Positional(r, segs) ==
    /\ r.Partition = Some(segs[2]) /\ r.Service = Some(segs[3])
    /\ r.Region = Some(segs[4]) /\ r.AccountId = Some(segs[5])
    /\ None \notin {r.Partition, r.Service, r.Region, r.AccountId}

\* C10, amended: every identifier with at least 5 segments (counted after "/"
\* is treated as ":") has Partition, Service, Region and AccountId non-null
\* and equal to segments 2 to 5, and adding content from segment 6 on leaves
\* the four values as they were.
C10_FiveSegments ==
    /\ [](N >= 5 => Positional(retVal, Segs))
    /\ [][N >= 5 =>
            /\ retVal'.Partition = retVal.Partition
            /\ retVal'.Service = retVal.Service
            /\ retVal'.Region = retVal.Region
            /\ retVal'.AccountId = retVal.AccountId]_vars

C10_Witness ==
    /\ N = 7
    /\ Positional(retVal, Segs)
    /\ Segs[2] # Segs[3] /\ Segs[3] # Segs[4] /\ Segs[4] # Segs[5]
    /\ Segs[6] # Segs[5]

(***************************************************************************)
(* C11 - C12: breakDownARN and getSqsQueueUrl (checked under SpecARN)      *)
(***************************************************************************)

\* C11: breakDownARN raises for no input string, the ARN field is the raw
\* input, and for a string with fewer than 2 segments every other field is
\* null.
C11_NeverRaises ==
    /\ ~breakDownARNRaises(arn)
    /\ retVal.ARN = Some(arn)
    /\ N < 2 => /\ retVal.Partition = None /\ retVal.Service = None
                /\ retVal.Region = None /\ retVal.AccountId = None
                /\ retVal.ResourceType = None /\ retVal.Resource = None
                /\ retVal.Qualifier = None

C11_Witness ==
    /\ N = 1
    /\ arn = Str("autoscaling")
    /\ retVal.ARN = Some(Str("autoscaling"))
    /\ retVal.Partition = None
    /\ ~breakDownARNRaises(arn)

\* C12: whenever Service, Region, AccountId and Resource are all non-null,
\* getSqsQueueUrl is "https://" Service "." Region ".amazonaws.com/"
\* AccountId "/" Resource, with the fields breakDownARN returns (segments
\* 3, 4, 5 and the Resource segment of the identifier).
C12_QueueUrl ==
    None \notin {retVal.Service, retVal.Region, retVal.AccountId, retVal.Resource}
    => /\ getSqsQueueUrl(arn) =
              Str("https://") \o retVal.Service.str \o Str(".") \o retVal.Region.str
              \o Str(".amazonaws.com/") \o retVal.AccountId.str \o Str("/")
              \o retVal.Resource.str
       /\ getSqsQueueUrl(arn) =
              Str("https://") \o Segs[3] \o Str(".") \o Segs[4]
              \o Str(".amazonaws.com/") \o Segs[5] \o Str("/")
              \o (IF N = 6 THEN Segs[6] ELSE Segs[7])

C12_Witness ==
    /\ N = 6
    /\ retVal.Region # retVal.AccountId
    /\ retVal.Service # retVal.Resource
    /\ getSqsQueueUrl(arn) # TypeError
    /\ Len(getSqsQueueUrl(arn)) = 8

(***************************************************************************)
(* Reading the record set, and removing an address that is not in it       *)
(***************************************************************************)
\* The Value entries of the A record set for the host record, in order.
RegisteredValues(recordSets) ==
    LET i == CHOOSE i \in Matching(recordSets) : TRUE
    IN  [j \in 1..Len(recordSets[i].ResourceRecords) |->
            recordSets[i].ResourceRecords[j].Value]

\* C13: when the zone listing holds an A record set for the host record,
\* getIpAddressesFromRoute53Entry returns that record set's address values in
\* order, and it returns the empty list only when there is no such record
\* set; so the list a launching invocation is about to write is what the
\* record set holds plus its own address.
C13_ReadReturnsValues ==
    \A p \in Procs :
        Succeeded(p, "getIpAddressesFromRoute53Entry") =>
            LET recordSets == ListResourceRecordSets(dnsBefore[p])
                got        == getIpAddressesFromRoute53Entry(recordSets)
            IN  /\ Matching(recordSets) # {} => got = RegisteredValues(recordSets)
                /\ got = <<>> => Matching(recordSets) = {}
                /\ (/\ pc[p] = "write"
                    /\ TransitionArm(lifecycleTransition(p)) = "launching")
                       => ipAddresses[p] = Append(got, newInstancePublicIP[p])

\* C14: a recognized TERMINATING event whose resolved address is not in the
\* record set the invocation found, the lookup and the read succeeding: the
\* removal changes nothing, the handler still writes the unchanged list and
\* acknowledges the transition.
C14_RemoveAbsentIsNoOp ==
    \A p \in Procs :
        (/\ Done(p) /\ Lifecycle(event[p])
         /\ lifecycleTransition(p) = TERMINATING
         /\ Succeeded(p, "getIPofInstance")
         /\ Succeeded(p, "getIpAddressesFromRoute53Entry")
         /\ ipOf[instanceId(p)] \notin Range(dnsBefore[p]))
            => /\ Attempted(p, "setDNSRecord")
               /\ Attempted(p, "resumeAutoscaleTransition")
               /\ AllOk(p) => dns = dnsBefore[p]

(***************************************************************************)
(* Two invocations                                                         *)
(***************************************************************************)
\* The place of p's call to fn in the order of all calls.
At(p, fn) == calls[p][CHOOSE i \in 1..Len(calls[p]) : calls[p][i].fn = fn].at

\* Every call of p was made before any call of q.
RanBefore(p, q) ==
    \A i \in 1..Len(calls[p]), j \in 1..Len(calls[q]) : calls[p][i].at < calls[q][j].at

Count(l, x) == Cardinality({i \in 1..Len(l) : l[i] = x})

\* An invocation that handled a launch and saw every call succeed.
LaunchedOk(p) ==
    /\ Done(p) /\ Lifecycle(event[p])
    /\ lifecycleTransition(p) = LAUNCHING
    /\ AllOk(p)
    /\ Succeeded(p, "setDNSRecord")
    /\ Succeeded(p, "resumeAutoscaleTransition")

\* C15: the same LAUNCHING event for an instance with address A handled by
\* two invocations one after the other, every call succeeding and nobody
\* else writing: the record set then contains A twice.
C15_RepeatDuplicates ==
    \A p, q \in Procs :
        (/\ p # q
         /\ LaunchedOk(p) /\ LaunchedOk(q)
         /\ event[p] = event[q]
         /\ RanBefore(p, q))
            => Count(dns, ipOf[instanceId(p)]) >= 2

\* C16: the write is an unguarded replacement of the whole record set, so
\* the record set is always the list of whichever invocation wrote last,
\* whatever the other invocation read or wrote.
C16_LastWriterWins ==
    \A q \in Procs :
        (/\ Succeeded(q, "setDNSRecord")
         /\ \A p \in Procs \ {q} :
               Succeeded(p, "setDNSRecord") => At(p, "setDNSRecord") < At(q, "setDNSRecord"))
            => dns = ipAddresses[q]

\* Two launches for different instances, both reading before either writes:
\* the record set is the later writer's list, the other instance's address
\* is not in it, and both transitions are acknowledged.
C16_Witness ==
    \E p, q \in Procs :
        /\ LaunchedOk(p) /\ LaunchedOk(q)
        /\ instanceId(p) # instanceId(q)
        /\ \A r, w \in {p, q} :
              At(r, "getIpAddressesFromRoute53Entry") < At(w, "setDNSRecord")
        /\ At(p, "setDNSRecord") < At(q, "setDNSRecord")
        /\ dns = ipAddresses[q]
        /\ ipOf[instanceId(p)] \notin Range(dns)
        /\ ipOf[instanceId(q)] \in Range(dns)

(***************************************************************************)
(* Order of the steps, retries, failed lookups, baseline                   *)
(***************************************************************************)
CallNames(p) == [i \in 1..Len(calls[p]) |-> calls[p][i].fn]

IsPrefix(s, t) == Len(s) <= Len(t) /\ s = SubSeq(t, 1, Len(s))

EventSteps ==
    <<"getIPofInstance", "getIpAddressesFromRoute53Entry", "setDNSRecord",
      "resumeAutoscaleTransition">>

NumCalls(p, fn) == Cardinality({i \in 1..Len(calls[p]) : calls[p][i].fn = fn})

\* C17: within an invocation handling LAUNCHING or TERMINATING the calls are
\* made in the order resolve, read, write, acknowledge, and the
\* acknowledgment is never called unless that invocation's DNS write has
\* returned successfully before it.
C17_StepOrder ==
    \A p \in Procs :
        (/\ branch[p] = "event" /\ Lifecycle(event[p])
         /\ lifecycleTransition(p) \in {LAUNCHING, TERMINATING})
            => /\ IsPrefix(CallNames(p), EventSteps)
               /\ \A i \in 1..Len(calls[p]) :
                     calls[p][i].fn = "resumeAutoscaleTransition"
                        => \E j \in 1..(i - 1) :
                              /\ calls[p][j].fn = "setDNSRecord"
                              /\ calls[p][j].ok
                              /\ calls[p][j].at < calls[p][i].at

C17_Witness ==
    \E p \in Procs :
        /\ Done(p) /\ Lifecycle(event[p])
        /\ lifecycleTransition(p) = LAUNCHING
        /\ CallNames(p) = EventSteps
        /\ AllOk(p)

\* C18: nothing is retried: an invocation makes at most one DNS write and at
\* most one acknowledgment, looks each instance up at most once, and makes no
\* further call after a call has failed (the failure ends the invocation).
C18_NoRetry ==
    \A p \in Procs :
        /\ NumCalls(p, "setDNSRecord") <= 1
        /\ NumCalls(p, "resumeAutoscaleTransition") <= 1
        /\ \A inst \in Instances :
              Cardinality({i \in 1..Len(calls[p]) :
                              /\ calls[p][i].fn = "getIPofInstance"
                              /\ calls[p][i].arg = inst}) <= 1
        /\ \A i \in 1..Len(calls[p]) :
              ~calls[p][i].ok => i = Len(calls[p]) /\ Done(p)

C18_Witness ==
    \E p \in Procs :
        /\ Done(p) /\ Lifecycle(event[p])
        /\ Failed(p, "setDNSRecord")
        /\ CallNames(p) = SubSeq(EventSteps, 1, 3)
        /\ dns = dnsBefore[p]

\* C19: when getIPofInstance fails on the event path, whatever the
\* transition value, the invocation makes no DNS read, no DNS write and no
\* acknowledgment, and the record set is left as it was.
C19_FailedLookupStops ==
    \A p \in Procs :
        (branch[p] = "event" /\ Failed(p, "getIPofInstance"))
            => /\ Done(p)
               /\ Len(calls[p]) = 1
               /\ ~Attempted(p, "getIpAddressesFromRoute53Entry")
               /\ ~Attempted(p, "setDNSRecord")
               /\ ~Attempted(p, "resumeAutoscaleTransition")
               /\ dns = dnsBefore[p]
               /\ newInstancePublicIP[p] = NoValue

C19_Witness ==
    \E p \in Procs :
        /\ Done(p) /\ Lifecycle(event[p])
        /\ TransitionArm(lifecycleTransition(p)) = "other"
        /\ Failed(p, "getIPofInstance")
        /\ ~Attempted(p, "resumeAutoscaleTransition")
        /\ dns = dnsBefore[p] /\ dns # <<>>

\* C20: baseline reconciliation is all-or-nothing: its single write is made
\* only after the listing and the lookup of every listed member succeeded;
\* when the listing or a lookup fails there is no write and the record set is
\* unchanged; and baseline never reads the record set and never acknowledges.
C20_BaselineAllOrNothing ==
    \A p \in Procs :
        branch[p] = "baseline" =>
            /\ ~Attempted(p, "getIpAddressesFromRoute53Entry")
            /\ ~Attempted(p, "resumeAutoscaleTransition")
            /\ NumCalls(p, "setDNSRecord") <= 1
            /\ \A i \in 1..Len(calls[p]) :
                  calls[p][i].fn = "setDNSRecord" =>
                      /\ i = Len(fleet) + 2
                      /\ calls[p][1].fn = "describe_auto_scaling_groups"
                      /\ \A j \in 1..(i - 1) : calls[p][j].ok
                      /\ \A k \in 1..Len(fleet) :
                            /\ calls[p][k + 1].fn = "getIPofInstance"
                            /\ calls[p][k + 1].arg = fleet[k]
                      /\ ipAddresses[p] = FleetAddresses
            /\ (Failed(p, "describe_auto_scaling_groups") \/ Failed(p, "getIPofInstance"))
                  => /\ ~Attempted(p, "setDNSRecord")
                     /\ dns = dnsBefore[p]
                     /\ Done(p)

\* The second of two members cannot be resolved: nothing is written.
C20_Witness ==
    \E p \in Procs :
        /\ Done(p) /\ branch[p] = "baseline"
        /\ Len(fleet) = 2
        /\ Len(calls[p]) = 3 /\ calls[p][2].ok /\ ~calls[p][3].ok
        /\ ~Attempted(p, "setDNSRecord")
        /\ dns = dnsBefore[p] /\ dns # <<ipOf[fleet[1]]>>

====
